---- MODULE Spec2Model ----
(***************************************************************************)
(* Availability state tracking (StateManager) and the orchestration script *)
(* (check.js: checkReservations and the local notification cooldown) of    *)
(* the reservation checker.                                                *)
(*                                                                         *)
(* Encoding of JavaScript values:                                          *)
(*   - notifiedSlots, which the code reads with || [], is <<>> when it is  *)
(*     missing and <<v>> when it holds v, and so is every value that may   *)
(*     not be there yet; null, undefined, booleans and dates met where     *)
(*     another type may stand are records tagged by their type;            *)
(*   - an instant (Date) is its number of milliseconds; toISOString and    *)
(*     new Date(iso) are exact at that precision;                          *)
(*   - a file is [kind, value]: kind "absent", "garbage" (content that     *)
(*     JSON.parse rejects, or a file that cannot be read) or "json" (value *)
(*     is the parsed content);                                             *)
(*   - a loaded state is a record of the properties it has: a lastCheck    *)
(*     or previousSlots the parsed object lacks is no field of the record. *)
(***************************************************************************)
EXTENDS Integers, Sequences, FiniteSets, TLC

VARIABLES
    stateFile,      \* content of last_check.json
    state,          \* StateManager.state (in memory)
    lastOp,         \* name of the StateManager operation just performed
    opArg,          \* its argument (a slot list)
    opResult,       \* its return value; for a pipeline run the notified slots
    opFound,        \* what findNewAvailabilities returned inside a pipeline run
    opBefore,       \* notifiedSlots || [] as markAsNotified found it
    notifiedEver,   \* keys a pipeline run has sent to the notification sink
    ops,            \* number of StateManager operations performed so far
    threw,          \* whether the operation just performed threw
    stateWrite,     \* how its writeFileSync of the state file ended, if it made one
    now,            \* the system clock, in milliseconds
    lastNotificationFile,   \* content of last_notification.json
    pc,             \* where the current checkReservations call stands
    source,         \* its source, "GitHub Actions" or "Local"
    observed,       \* its scraper.getAvailableSlots(), once scraped
    cooldown,       \* what shouldSendNonAvailableNotification returned to it
    sent,           \* the notifier.notify calls it has made
    prevObserved,   \* the available slots of the last call that returned
    checks,         \* number of checkReservations calls started so far
    method,         \* NOTIFICATION_METHOD of the process
    delivered,      \* how each notifier.notify call that has settled ended
    recordWrite,    \* how its writeFileSync of the cooldown record ended, if it made one
    exitCode,       \* the code the process exited with in single check mode
    lastNoneAt,     \* when a Local run last sent a no-availability notification and
                    \* recorded it, no availability notification sent since
    poll,           \* where startPolling stands
    parked,         \* the locals of the other checkReservations calls in progress
    lastFire,       \* when the interval timer was registered or last fired
    fires           \* number of times the interval timer has fired

smVars == <<stateFile, state, lastOp, opArg, opResult, opFound, opBefore, notifiedEver, ops,
           threw, stateWrite>>

pollVars == <<poll, parked, lastFire, fires>>

checkVars == <<lastNotificationFile, pc, source, observed, cooldown, sent, prevObserved, checks,
              method, delivered, recordWrite, exitCode, lastNoneAt, poll, parked, lastFire, fires>>

vars == <<stateFile, state, lastOp, opArg, opResult, opFound, opBefore, notifiedEver, ops,
          threw, stateWrite, now,
          lastNotificationFile, pc, source, observed, cooldown, sent, prevObserved, checks,
          method, delivered, recordWrite, exitCode, lastNoneAt, poll, parked, lastFire, fires>>

-----------------------------------------------------------------------------
(* Bounds of the model *)

\* longest slot list handed to an operation
MaxSlots == 2
\* direct StateManager calls in one behaviour
MaxOps == 2
\* constructions and pipeline runs in one behaviour
MaxRuns == 3
\* checkReservations calls in one behaviour
MaxChecks == 2
\* firings of the polling timer in one behaviour
MaxFires == 2

-----------------------------------------------------------------------------
(* Values *)

None == <<>>
Some(v) == <<v>>

\* the array size markAsNotified keeps
NOTIFIED_LIMIT == 1000

Range(s) == {s[i] : i \in 1..Len(s)}

\* Slots as CalendarScraper.parseAvailabilities builds them: date and times
\* cut out of the start/end datetime inputs, available from the icon, and
\* metadata that is no part of the key.
Slot(d, st, en, av, cd) ==
    [date |-> d, startTime |-> st, endTime |-> en, available |-> av, serviceCd |-> cd]

SlotPool ==
    { Slot("2025/11/20", "10:00", "11:00", TRUE,  "1"),
      Slot("2025/11/20", "10:00", "11:00", FALSE, "1"),
      Slot("2025/11/21", "13:00", "14:00", TRUE,  "2") }

SeqsUpTo(S, n) == UNION {[1..k -> S] : k \in 0..n}

\* what a scrape returns: one record per calendar unit, no unit twice
SlotLists ==
    {s \in SeqsUpTo(SlotPool, MaxSlots) : \A i, j \in DOMAIN s : s[i] = s[j] => i = j}

-----------------------------------------------------------------------------
(* StateManager *)

getSlotKey(slot) == slot.date \o "_" \o slot.startTime \o "_" \o slot.endTime

Null == [t |-> "null"]
Date(ms) == [t |-> "date", ms |-> ms]

DefaultState == [lastCheck |-> Null, previousSlots |-> <<>>, notifiedSlots |-> Some(<<>>)]

\* this.state.notifiedSlots || []
NotifiedOrEmpty(st) == IF st.notifiedSlots = None THEN <<>> ELSE st.notifiedSlots[1]

loadState(file) == IF file.kind = "json" THEN file.value ELSE DefaultState

JsonFile(v) == [kind |-> "json", value |-> v]
AbsentFile == [kind |-> "absent", value |-> None]
GarbageFile == [kind |-> "garbage", value |-> None]

\* a state file that holds the JSON text {}
EmptyObject == [notifiedSlots |-> None]

\* How fs.writeFileSync(file, text) ends: the file holds the text; or the call
\* throws before it touches the file (the file cannot be opened for writing);
\* or it throws after opening has truncated the file (no space left, I/O
\* error), leaving a prefix of the text, which JSON.parse rejects.
WriteOutcomes == {"written", "refused", "torn"}

writeFileSync(file, content, outcome) ==
    IF outcome = "written" THEN content
    ELSE IF outcome = "refused" THEN file
    ELSE GarbageFile

\* the error writeFileSync throws is caught and logged
saveState(st, file, outcome) == writeFileSync(file, JsonFile(st), outcome)

\* this.state.<property> throws a TypeError when the loaded state is null,
\* and so does this.state.previousSlots.map when the state has no previousSlots
TypeErrorIn(op, st) ==
    \/ st = Null
    \/ op = "findNewAvailabilities" /\ "previousSlots" \notin DOMAIN st

MapKeys(slots) == [i \in 1..Len(slots) |-> getSlotKey(slots[i])]

\* compares whole slot records where the code compares keys
findNewAvailabilities_BySlot(st, currentSlots) ==
    SelectSeq(currentSlots, LAMBDA slot : slot \notin Range(st.previousSlots))

findNewAvailabilities(st, currentSlots) ==
    LET previousKeys == {getSlotKey(st.previousSlots[i]) : i \in 1..Len(st.previousSlots)}
        keep(slot) == getSlotKey(slot) \notin previousKeys
    IN SelectSeq(currentSlots, keep)

\* keeps the notified slots where the code drops them
filterNotifiedSlots_Inverted(st, newSlots) ==
    SelectSeq(newSlots, LAMBDA slot : getSlotKey(slot) \in Range(NotifiedOrEmpty(st)))

\* ignores the notified keys
filterNotifiedSlots_Unfiltered(st, newSlots) == newSlots

filterNotifiedSlots(st, newSlots) ==
    LET notifiedKeys == Range(NotifiedOrEmpty(st))
        keep(slot) == getSlotKey(slot) \notin notifiedKeys
    IN SelectSeq(newSlots, keep)

\* slice(0, n): keeps the oldest entries where the code keeps the newest
SliceFirst(s, n) == IF Len(s) <= n THEN s ELSE SubSeq(s, 1, n)

\* Array.prototype.slice(-n)
SliceLast(s, n) == IF Len(s) <= n THEN s ELSE SubSeq(s, Len(s) - n + 1, Len(s))

markedState(st, slots) ==
    LET pushed == NotifiedOrEmpty(st) \o MapKeys(slots)
        kept == IF Len(pushed) > NOTIFIED_LIMIT THEN SliceLast(pushed, NOTIFIED_LIMIT) ELSE pushed
    IN [st EXCEPT !.notifiedSlots = Some(kept)]

\* the two assignments create the properties the loaded state lacks
updatedState(st, currentSlots, t) ==
    [lastCheck |-> Date(t), previousSlots |-> currentSlots, notifiedSlots |-> st.notifiedSlots]

clearedState(st) == [st EXCEPT !.notifiedSlots = Some(<<>>)]

\* a lastCheck the state lacks is undefined, and undefined === null is false
isFirstRun(st) == "lastCheck" \in DOMAIN st /\ st.lastCheck = Null

-----------------------------------------------------------------------------
(* The state file a StateManager is constructed over: absent, unreadable,  *)
(* or a record written earlier.  A record may come from a long history     *)
(* (notifiedSlots near the limit), from a writer that kept no              *)
(* notifiedSlots property, or from outside the program (more entries than  *)
(* the limit: loadState returns what JSON.parse returns).                  *)

SeedKeys(n) ==
    [i \in 1..n |-> IF i % 2 = 1 THEN "2025/11/20_10:00_11:00" ELSE "2025/11/19_10:00_11:00"]

SeedStates ==
    { DefaultState,
      [lastCheck |-> Date(0),
       previousSlots |-> <<Slot("2025/11/20", "10:00", "11:00", FALSE, "1")>>,
       notifiedSlots |-> None],
      [lastCheck |-> Date(0),
       previousSlots |-> <<Slot("2025/11/20", "10:00", "11:00", FALSE, "1")>>,
       notifiedSlots |-> Some(SeedKeys(NOTIFIED_LIMIT - 1))] }

SeedFiles == {AbsentFile, GarbageFile} \cup {JsonFile(st) : st \in SeedStates}

\* a state record with more notifiedSlots than the program ever writes
OversizeState ==
    [lastCheck |-> Null,
     previousSlots |-> <<>>,
     notifiedSlots |-> Some(SeedKeys(NOTIFIED_LIMIT + 1))]

\* a StateManager constructed over the file
Constructed(files) ==
    /\ stateFile \in files
    /\ state = loadState(stateFile)
    /\ lastOp = "constructor"
    /\ opArg = <<>>
    /\ opResult = <<>>
    /\ opFound = <<>>
    /\ opBefore = <<>>
    /\ notifiedEver = {}
    /\ ops = 0
    /\ threw = FALSE
    /\ stateWrite = None

\* check.js loaded, no checkReservations call made yet
Loaded(files) ==
    /\ lastNotificationFile \in files
    /\ pc = "idle"
    /\ source = "Local"
    /\ observed = None
    /\ cooldown = None
    /\ sent = <<>>
    /\ prevObserved = None
    /\ checks = 0
    /\ method = "discord"
    /\ delivered = <<>>
    /\ recordWrite = None
    /\ exitCode = None
    /\ lastNoneAt = None
    /\ poll = "off"
    /\ parked = <<>>
    /\ lastFire = 0
    /\ fires = 0

Init ==
    /\ Constructed(SeedFiles)
    /\ Loaded({AbsentFile})
    /\ now = 0

\* a later process constructs its StateManager over the file as it is now
Construct ==
    /\ ops < MaxRuns
    /\ state' = loadState(stateFile)
    /\ lastOp' = "constructor"
    /\ opArg' = <<>>
    /\ opResult' = <<>>
    /\ opFound' = <<>>
    /\ opBefore' = <<>>
    /\ ops' = ops + 1
    /\ threw' = FALSE
    /\ stateWrite' = None
    /\ UNCHANGED <<stateFile, notifiedEver, now, checkVars>>

\* the operation throws before it has assigned or written anything
Throws ==
    /\ threw' = TRUE
    /\ stateWrite' = None
    /\ opResult' = <<>>
    /\ opBefore' = <<>>
    /\ UNCHANGED <<state, stateFile>>

UpdateState(currentSlots, outcome) ==
    /\ ops < MaxOps
    /\ lastOp' = "updateState"
    /\ opArg' = currentSlots
    /\ opFound' = <<>>
    /\ ops' = ops + 1
    /\ IF TypeErrorIn("updateState", state)
         THEN Throws
         ELSE /\ state' = updatedState(state, currentSlots, now)
              /\ stateFile' = saveState(state', stateFile, outcome)
              /\ stateWrite' = Some(outcome)
              /\ threw' = FALSE
              /\ opResult' = <<>>
              /\ opBefore' = <<>>
    /\ UNCHANGED <<notifiedEver, now, checkVars>>

FindNewAvailabilities(currentSlots) ==
    /\ ops < MaxOps
    /\ lastOp' = "findNewAvailabilities"
    /\ opArg' = currentSlots
    /\ opFound' = <<>>
    /\ ops' = ops + 1
    /\ IF TypeErrorIn("findNewAvailabilities", state)
         THEN Throws
         ELSE /\ opResult' = findNewAvailabilities(state, currentSlots)
              /\ opBefore' = <<>>
              /\ threw' = FALSE
              /\ stateWrite' = None
              /\ UNCHANGED <<stateFile, state>>
    /\ UNCHANGED <<notifiedEver, now, checkVars>>

\* records the returned slots as notified where the code only filters
FilterNotifiedSlots_Marking(newSlots) ==
    /\ ops < MaxOps
    /\ lastOp' = "filterNotifiedSlots"
    /\ opArg' = newSlots
    /\ opFound' = <<>>
    /\ ops' = ops + 1
    /\ IF TypeErrorIn("filterNotifiedSlots", state)
         THEN Throws
         ELSE /\ opResult' = filterNotifiedSlots(state, newSlots)
              /\ opBefore' = <<>>
              /\ threw' = FALSE
              /\ stateWrite' = None
              /\ state' = markedState(state, filterNotifiedSlots(state, newSlots))
              /\ UNCHANGED stateFile
    /\ UNCHANGED <<notifiedEver, now, checkVars>>

FilterNotifiedSlots(newSlots) ==
    /\ ops < MaxOps
    /\ lastOp' = "filterNotifiedSlots"
    /\ opArg' = newSlots
    /\ opFound' = <<>>
    /\ ops' = ops + 1
    /\ IF TypeErrorIn("filterNotifiedSlots", state)
         THEN Throws
         ELSE /\ opResult' = filterNotifiedSlots(state, newSlots)
              /\ opBefore' = <<>>
              /\ threw' = FALSE
              /\ stateWrite' = None
              /\ UNCHANGED <<stateFile, state>>
    /\ UNCHANGED <<notifiedEver, now, checkVars>>

MarkAsNotified(slots, outcome) ==
    /\ ops < MaxOps
    /\ lastOp' = "markAsNotified"
    /\ opArg' = slots
    /\ opFound' = <<>>
    /\ ops' = ops + 1
    /\ IF TypeErrorIn("markAsNotified", state)
         THEN Throws
         ELSE /\ state' = markedState(state, slots)
              /\ stateFile' = saveState(state', stateFile, outcome)
              /\ stateWrite' = Some(outcome)
              /\ threw' = FALSE
              /\ opResult' = <<>>
              /\ opBefore' = NotifiedOrEmpty(state)
    /\ UNCHANGED <<notifiedEver, now, checkVars>>

ClearNotifiedSlots(outcome) ==
    /\ ops < MaxOps
    /\ lastOp' = "clearNotifiedSlots"
    /\ opArg' = <<>>
    /\ opFound' = <<>>
    /\ ops' = ops + 1
    /\ IF TypeErrorIn("clearNotifiedSlots", state)
         THEN Throws
         ELSE /\ state' = clearedState(state)
              /\ stateFile' = saveState(state', stateFile, outcome)
              /\ stateWrite' = Some(outcome)
              /\ threw' = FALSE
              /\ opResult' = <<>>
              /\ opBefore' = <<>>
    /\ UNCHANGED <<notifiedEver, now, checkVars>>

IsFirstRun ==
    /\ ops < MaxOps
    /\ lastOp' = "isFirstRun"
    /\ opArg' = <<>>
    /\ opFound' = <<>>
    /\ ops' = ops + 1
    /\ IF TypeErrorIn("isFirstRun", state)
         THEN Throws
         ELSE /\ opResult' = isFirstRun(state)
              /\ opBefore' = <<>>
              /\ threw' = FALSE
              /\ stateWrite' = None
              /\ UNCHANGED <<stateFile, state>>
    /\ UNCHANGED <<notifiedEver, now, checkVars>>

\* CalendarScraper.getAvailableSlots
getAvailableSlots(availabilities) == SelectSeq(availabilities, LAMBDA slot : slot.available)

\* One run of the dedup pipeline over a scrape result: the new available
\* slots, less those already notified, go to the sink and are marked; the
\* full result becomes the next baseline.  Each of the two saves may fail.
Run(allSlots, written1, written2) ==
    LET found == findNewAvailabilities(state, getAvailableSlots(allSlots))
        unnotified == filterNotifiedSlots(state, found)
        marked == markedState(state, unnotified)
        file1 == saveState(marked, stateFile, written1)
        updated == updatedState(marked, allSlots, now)
    IN /\ ops < MaxRuns
       /\ state' = updated
       /\ stateFile' = saveState(updated, file1, written2)
       /\ lastOp' = "run"
       /\ opArg' = allSlots
       /\ opFound' = found
       /\ opResult' = unnotified
       /\ opBefore' = NotifiedOrEmpty(state)
       /\ notifiedEver' = notifiedEver \cup Range(MapKeys(unnotified))
       /\ ops' = ops + 1
       /\ threw' = FALSE
       /\ stateWrite' = Some(written2)
       /\ UNCHANGED <<now, checkVars>>

Next ==
    \/ Construct
    \/ \E s \in SlotLists, w \in WriteOutcomes : UpdateState(s, w)
    \/ \E s \in SlotLists : FindNewAvailabilities(s)
    \/ \E s \in SlotLists : FilterNotifiedSlots(s)
    \/ \E s \in SlotLists, w \in WriteOutcomes : MarkAsNotified(s, w)
    \/ \E w \in WriteOutcomes : ClearNotifiedSlots(w)
    \/ IsFirstRun

Spec == Init /\ [][Next]_vars

\* State files for the cases of loading: absent, unreadable, JSON that is no
\* state record (null, {}), and records written by an earlier run.
LoadFiles ==
    { AbsentFile, GarbageFile, JsonFile(Null), JsonFile(EmptyObject), JsonFile(DefaultState),
      JsonFile([lastCheck |-> Date(0),
                previousSlots |-> <<Slot("2025/11/20", "10:00", "11:00", TRUE, "1")>>,
                notifiedSlots |-> Some(<<"2025/11/20_10:00_11:00">>)]) }

LoadInit ==
    /\ Constructed(LoadFiles)
    /\ Loaded({AbsentFile})
    /\ now = 0

LoadSpec == LoadInit /\ [][Next]_vars

OversizeInit ==
    /\ Constructed({JsonFile(OversizeState)})
    /\ Loaded({AbsentFile})
    /\ now = 0

OversizeSpec == OversizeInit /\ [][Next]_vars

NextRun ==
    \/ Construct
    \/ \E s \in SlotLists, w1 \in WriteOutcomes, w2 \in WriteOutcomes : Run(s, w1, w2)

RunSpec == Init /\ [][NextRun]_vars

-----------------------------------------------------------------------------
(* check.js: the local notification cooldown and checkReservations *)

NON_AVAILABLE_COOLDOWN_MINUTES == 30

\* milliseconds in a minute: the 1000 * 60 of minutesSince
MsPerMinute == 1000 * 60

Minutes(n) == n * MsPerMinute

Undefined == [t |-> "undefined"]
Bool(b) == [t |-> "boolean", b |-> b]
Truthy(v) == v.t = "boolean" /\ v.b

LastNotification(ts, had) == [timestamp |-> ts, hadAvailability |-> had]

\* strict comparison where the code has >=
shouldSendNonAvailableNotification_Strict(file, t) ==
    IF file.kind = "absent" THEN TRUE
    ELSE IF file.kind = "garbage" THEN TRUE
    ELSE IF file.value = Null THEN TRUE
    ELSE IF Truthy(file.value.hadAvailability) THEN TRUE
    ELSE IF file.value.timestamp.t # "date" THEN FALSE
    ELSE t - file.value.timestamp.ms > NON_AVAILABLE_COOLDOWN_MINUTES * MsPerMinute

\* divides the milliseconds by 1000 where the code divides by 1000 * 60
shouldSendNonAvailableNotification_Seconds(file, t) ==
    IF file.kind = "absent" THEN TRUE
    ELSE IF file.kind = "garbage" THEN TRUE
    ELSE IF file.value = Null THEN TRUE
    ELSE IF Truthy(file.value.hadAvailability) THEN TRUE
    ELSE IF file.value.timestamp.t # "date" THEN FALSE
    ELSE t - file.value.timestamp.ms >= NON_AVAILABLE_COOLDOWN_MINUTES * 1000

\* minutesSince = (now - lastTime) / (1000 * 60) is at least the whole number
\* NON_AVAILABLE_COOLDOWN_MINUTES exactly when now - lastTime is at least that
\* many times 1000 * 60.  A timestamp that is no date gives NaN, and
\* NaN >= 30 is false; content JSON.parse rejects lands in the catch, and so
\* does the property access on a parsed null.
shouldSendNonAvailableNotification(file, t) ==
    IF file.kind = "absent" THEN TRUE
    ELSE IF file.kind = "garbage" THEN TRUE
    ELSE IF file.value = Null THEN TRUE
    ELSE IF Truthy(file.value.hadAvailability) THEN TRUE
    ELSE IF file.value.timestamp.t # "date" THEN FALSE
    ELSE t - file.value.timestamp.ms >= NON_AVAILABLE_COOLDOWN_MINUTES * MsPerMinute

\* records false where the code records hadAvailability
updateLastNotification_NeverAvailable(hadAvailability, t, file, outcome) ==
    writeFileSync(file, JsonFile(LastNotification(Date(t), Bool(FALSE))), outcome)

\* the error writeFileSync throws is caught and logged
updateLastNotification(hadAvailability, t, file, outcome) ==
    writeFileSync(file, JsonFile(LastNotification(Date(t), Bool(hadAvailability))), outcome)

Notification(title, slots, src, t) ==
    [title |-> title, slots |-> slots, source |-> src, at |-> t]

Sources == {"GitHub Actions", "Local"}

\* NOTIFICATION_METHOD: the default, the console, and a name notify does not know
Methods == {"discord", "console", "sms"}

\* rejects when the sink fails, where the code catches and falls back
notify_Rejecting(m, sinkOk) ==
    IF m \in {"discord", "slack", "email"}
      THEN IF sinkOk THEN [rejected |-> FALSE, via |-> m, fallback |-> FALSE]
           ELSE [rejected |-> TRUE, via |-> "none", fallback |-> FALSE]
      ELSE [rejected |-> FALSE, via |-> "console", fallback |-> FALSE]

\* rethrows the error of the sink after the fallback to the console
notify_RethrowingAfterFallback(m, sinkOk) ==
    IF m \in {"discord", "slack", "email"}
      THEN IF sinkOk THEN [rejected |-> FALSE, via |-> m, fallback |-> FALSE]
           ELSE [rejected |-> TRUE, via |-> "console", fallback |-> TRUE]
      ELSE [rejected |-> FALSE, via |-> "console", fallback |-> FALSE]

\* Notifier.notify: sendDiscord, sendSlack and sendEmail throw or reject when
\* the sink fails (no webhook URL or credentials, a status outside 2xx, a
\* transport error); the catch then prints to the console and notify resolves
notify(m, sinkOk) ==
    IF m \in {"discord", "slack", "email"}
      THEN IF sinkOk THEN [rejected |-> FALSE, via |-> m, fallback |-> FALSE]
           ELSE [rejected |-> FALSE, via |-> "console", fallback |-> TRUE]
      ELSE [rejected |-> FALSE, via |-> "console", fallback |-> FALSE]

\* swallows the error where the catch block rethrows it
settled_Swallowing(at) == "done"

\* how the call settles once its last notifier.notify has: the catch block
\* rethrows the error, the try block returns the result
settled(at) == IF at = "notifyingFailure" THEN "failed" ELSE "done"

\* single check mode: process.exit(0) from then, process.exit(1) from catch
exitStatus(outcome) == IF outcome = "done" THEN 0 ELSE 1

\* instants the clock passes through: around the cooldown's boundary
Instants ==
    { 0, Minutes(1),
      Minutes(NON_AVAILABLE_COOLDOWN_MINUTES - 1),
      Minutes(NON_AVAILABLE_COOLDOWN_MINUTES) - 1,
      Minutes(NON_AVAILABLE_COOLDOWN_MINUTES),
      Minutes(NON_AVAILABLE_COOLDOWN_MINUTES + 1) }

\* last_notification.json before the first call: absent, unreadable, left by
\* an earlier run, a JSON object without the two properties, or a JSON null
SeedNotificationFiles ==
    { AbsentFile, GarbageFile,
      JsonFile(LastNotification(Date(0), Bool(FALSE))),
      JsonFile(LastNotification(Date(0), Bool(TRUE))),
      JsonFile(LastNotification(Undefined, Undefined)),
      JsonFile(Null) }

CheckInit ==
    /\ Constructed({AbsentFile})
    /\ Loaded(SeedNotificationFiles)
    /\ now = 0

Tick(t) ==
    /\ t > now
    /\ now' = t
    /\ UNCHANGED <<smVars, checkVars>>

\* checkReservations from its first line to the await of scraper.scrape
EnterCheck(src, m) ==
    /\ pc' = "scraping"
    /\ source' = src
    /\ method' = m
    /\ prevObserved' = IF pc = "done" \/ exitCode = Some(0) THEN observed ELSE prevObserved
    /\ observed' = None
    /\ cooldown' = None
    /\ sent' = <<>>
    /\ delivered' = <<>>
    /\ recordWrite' = None
    /\ exitCode' = None
    /\ checks' = checks + 1
    /\ UNCHANGED <<smVars, now, lastNotificationFile, lastNoneAt>>

\* checkReservations is called when no call is in progress, by a new process
\* after the last one has exited or again by the same one
CheckBegin(src, m) ==
    /\ pc \in {"idle", "done", "failed", "exited"}
    /\ poll = "off"
    /\ checks < MaxChecks
    /\ EnterCheck(src, m)
    /\ UNCHANGED pollVars

\* the catch block, up to the await of its notifier.notify
CatchError ==
    /\ sent' = Append(sent, Notification("Reservation Check Failed", <<>>, source, now))
    /\ pc' = "notifyingFailure"

\* scraper.scrape rejects
ScrapeFails ==
    /\ pc = "scraping"
    /\ CatchError
    /\ UNCHANGED <<smVars, now, lastNotificationFile, source, observed, cooldown,
                   prevObserved, checks, method, delivered, recordWrite, exitCode,
                   lastNoneAt, pollVars>>

\* scraper.scrape resolves: from getAvailableSlots and saveToJSON (which
\* throws when the results file cannot be written) to the await of
\* notifier.notify, or to the return when the cooldown suppresses it
ScrapeReturns(allSlots, saved) ==
    LET availableSlots == getAvailableSlots(allSlots)
        called == source # "GitHub Actions"
        allowed == shouldSendNonAvailableNotification(lastNotificationFile, now)
        shouldNotify == source = "GitHub Actions" \/ allowed
    IN /\ pc = "scraping"
       /\ observed' = Some(availableSlots)
       /\ IF ~saved
            THEN CatchError /\ cooldown' = cooldown
          ELSE IF Len(availableSlots) > 0
            THEN /\ sent' = Append(sent, Notification("Reservation Slots Available!",
                                                      availableSlots, source, now))
                 /\ pc' = "notifyingAvailable"
                 /\ cooldown' = cooldown
          ELSE /\ cooldown' = IF called THEN Some(allowed) ELSE None
               /\ IF shouldNotify
                    THEN /\ sent' = Append(sent, Notification("Check Complete - No Availability",
                                                              <<>>, source, now))
                         /\ pc' = "notifyingNone"
                    ELSE /\ sent' = sent
                         /\ pc' = settled("scraping")
       /\ UNCHANGED <<smVars, now, lastNotificationFile, source, prevObserved, checks,
                      method, delivered, recordWrite, exitCode, lastNoneAt, pollVars>>

\* notifier.notify settles.  Resolved: the cooldown record of a Local run is
\* written and the call returns; after the failure notification the error is
\* rethrown.  Rejected: in the try block control passes to the catch block;
\* in the catch block the rejection is logged and the error rethrown.
NotifyReturns(sinkOk, outcome) ==
    LET result == notify(method, sinkOk)
        tracked == ~result.rejected /\ pc # "notifyingFailure" /\ source = "Local"
    IN /\ pc \in {"notifyingAvailable", "notifyingNone", "notifyingFailure"}
       /\ delivered' = Append(delivered, result)
       /\ IF result.rejected /\ pc # "notifyingFailure"
            THEN CatchError
            ELSE /\ pc' = settled(pc)
                 /\ sent' = sent
       /\ lastNotificationFile' =
             IF tracked
               THEN updateLastNotification(pc = "notifyingAvailable", now,
                                           lastNotificationFile, outcome)
               ELSE lastNotificationFile
       /\ recordWrite' = IF tracked THEN Some(outcome) ELSE recordWrite
       /\ lastNoneAt' =
             IF result.rejected \/ pc = "notifyingFailure" THEN lastNoneAt
             ELSE IF pc = "notifyingAvailable" THEN None
             ELSE IF source # "Local" THEN lastNoneAt
             ELSE IF outcome = "written" THEN Some(sent[Len(sent)].at)
             ELSE None
       /\ UNCHANGED <<smVars, now, source, observed, cooldown, prevObserved, checks,
                      method, exitCode, pollVars>>

\* single check mode: the promise of checkReservations settles and the
\* process exits
MainExit ==
    /\ pc \in {"done", "failed"}
    /\ poll = "off"
    /\ exitCode' = Some(exitStatus(pc))
    /\ pc' = "exited"
    /\ UNCHANGED <<smVars, now, lastNotificationFile, source, observed, cooldown, sent,
                   prevObserved, checks, method, delivered, recordWrite, lastNoneAt, pollVars>>

CheckNext ==
    \/ \E t \in Instants : Tick(t)
    \/ \E src \in Sources, m \in Methods : CheckBegin(src, m)
    \/ ScrapeFails
    \/ \E s \in SlotLists, saved \in BOOLEAN : ScrapeReturns(s, saved)
    \/ \E ok \in BOOLEAN, w \in WriteOutcomes : NotifyReturns(ok, w)
    \/ MainExit

CheckSpec == CheckInit /\ [][CheckNext]_vars

-----------------------------------------------------------------------------
(* check.js: startPolling.  Several checkReservations calls may be in      *)
(* progress in the one process: pc, observed, cooldown, sent, delivered    *)
(* and recordWrite are the locals of the call whose await settles next,    *)
(* and parked holds those of the others.                                   *)

\* the default of startPolling's parameter
intervalMinutes == 5

\* instants the clock passes through: the multiples of the interval
PollInstants == {Minutes(intervalMinutes * k) : k \in 0..MaxFires}

InProgress(at) ==
    at \in {"scraping", "notifyingAvailable", "notifyingNone", "notifyingFailure"}

Locals ==
    [pc |-> pc, observed |-> observed, cooldown |-> cooldown, sent |-> sent,
     delivered |-> delivered, recordWrite |-> recordWrite]

\* main calls startPolling, which calls checkReservations and awaits it
PollStart(src, m) ==
    /\ poll = "off"
    /\ pc = "idle"
    /\ poll' = "first"
    /\ EnterCheck(src, m)
    /\ UNCHANGED <<parked, lastFire, fires>>

\* The first call settles.  Resolved: startPolling registers the interval
\* timer.  Rejected: the await throws, startPolling rejects before it has
\* registered the timer, and main has no handler for the rejection.
FirstSettles ==
    /\ poll = "first"
    /\ pc \in {"done", "failed"}
    /\ poll' = IF pc = "done" THEN "armed" ELSE "stopped"
    /\ lastFire' = now
    /\ UNCHANGED <<smVars, now, lastNotificationFile, pc, source, observed, cooldown, sent,
                   prevObserved, checks, method, delivered, recordWrite, exitCode,
                   lastNoneAt, parked, fires>>

\* The interval has passed: the timer's callback calls checkReservations,
\* whether or not an earlier call is still in progress.  (A call that fails
\* is caught and logged by the callback; the timer stays registered.)
IntervalFires ==
    /\ poll = "armed"
    /\ fires < MaxFires
    /\ now >= lastFire + Minutes(intervalMinutes)
    /\ parked' = IF InProgress(pc) THEN Append(parked, Locals) ELSE parked
    /\ EnterCheck(source, method)
    /\ lastFire' = now
    /\ fires' = fires + 1
    /\ poll' = poll

\* the await that settles next belongs to another call in progress
Resume(i) ==
    /\ i \in DOMAIN parked
    /\ pc' = parked[i].pc
    /\ observed' = parked[i].observed
    /\ cooldown' = parked[i].cooldown
    /\ sent' = parked[i].sent
    /\ delivered' = parked[i].delivered
    /\ recordWrite' = parked[i].recordWrite
    /\ parked' = IF InProgress(pc)
                   THEN [parked EXCEPT ![i] = Locals]
                   ELSE SubSeq(parked, 1, i - 1) \o SubSeq(parked, i + 1, Len(parked))
    /\ UNCHANGED <<smVars, now, lastNotificationFile, source, prevObserved, checks, method,
                   exitCode, lastNoneAt, poll, lastFire, fires>>

\* what the scraper finds during polling: nothing, or one slot
PollSlotLists == {s \in SlotLists : Len(s) <= 1}

\* polling starts with no cooldown record or with the record of an earlier
\* no-availability notification
PollInit ==
    /\ Constructed({AbsentFile})
    /\ Loaded({AbsentFile, JsonFile(LastNotification(Date(0), Bool(FALSE)))})
    /\ now = 0

PollNext ==
    \/ \E t \in PollInstants : Tick(t)
    \/ \E src \in Sources, m \in Methods : PollStart(src, m)
    \/ FirstSettles
    \/ IntervalFires
    \/ \E i \in 1..MaxFires : Resume(i)
    \/ ScrapeFails
    \/ \E s \in PollSlotLists, saved \in BOOLEAN : ScrapeReturns(s, saved)
    \/ \E ok \in BOOLEAN, w \in WriteOutcomes : NotifyReturns(ok, w)

PollSpec == PollInit /\ [][PollNext]_vars

-----------------------------------------------------------------------------
(* Properties of StateManager *)

\* a slot's identity: the tuple (date, startTime, endTime)
KeyOf(slot) == <<slot.date, slot.startTime, slot.endTime>>

RECURSIVE IsSubsequence(_, _)
IsSubsequence(a, b) ==
    IF a = <<>> THEN TRUE
    ELSE IF b = <<>> THEN FALSE
    ELSE IF Head(a) = Head(b) THEN IsSubsequence(Tail(a), Tail(b))
    ELSE IsSubsequence(a, Tail(b))

NotifiedKeySet == Range(NotifiedOrEmpty(state))

\* C1: in a sequence of pipeline runs (findNewAvailabilities, then
\* filterNotifiedSlots, notify, markAsNotified of the filtered result, then
\* updateState), no run notifies a key that was notified before and is still
\* in notifiedSlots when the run starts.
C1_AtMostOncePerKey ==
    [][lastOp' = "run" =>
         \A i \in DOMAIN opResult' :
             ~(/\ getSlotKey(opResult'[i]) \in notifiedEver
               /\ getSlotKey(opResult'[i]) \in Range(NotifiedOrEmpty(state)))]_vars

\* a run found a slot new against the baseline and held it back because its
\* key had been notified and was still in notifiedSlots
C1_Witness ==
    /\ lastOp = "run"
    /\ \E i \in DOMAIN opFound :
          /\ getSlotKey(opFound[i]) \in notifiedEver
          /\ opFound[i] \notin Range(opResult)

\* C4: after markAsNotified, updateState or clearNotifiedSlots, from any
\* state loadState can return, notifiedSlots has at most 1000 entries.
C4_NotifiedBounded ==
    lastOp \in {"markAsNotified", "updateState", "clearNotifiedSlots"}
        => Len(NotifiedOrEmpty(state)) <= NOTIFIED_LIMIT

\* C5: once updateState has stored a run's full slot list, every slot of
\* the argument that is available now and was not available in that list
\* (absent from it, or in it but unavailable) is returned by
\* findNewAvailabilities.
C5_NewlyAvailableReturned ==
    (lastOp = "findNewAvailabilities" /\ ~isFirstRun(state)) =>
        \A i \in DOMAIN opArg :
            (/\ opArg[i].available
             /\ ~\E j \in DOMAIN state.previousSlots :
                    /\ KeyOf(state.previousSlots[j]) = KeyOf(opArg[i])
                    /\ state.previousSlots[j].available)
            => opArg[i] \in Range(opResult)

\* C6: findNewAvailabilities returns, in the order of currentSlots, exactly
\* the slots whose (date, startTime, endTime) is that of no slot in
\* previousSlots: all of them when the keys are disjoint, none when called
\* with previousSlots itself.
C6_FindNewIsKeyDifference ==
    lastOp = "findNewAvailabilities" =>
        LET prev == state.previousSlots
            fresh(slot) == \A j \in DOMAIN prev : KeyOf(prev[j]) # KeyOf(slot)
        IN /\ opResult = SelectSeq(opArg, fresh)
           /\ (\A i \in DOMAIN opArg : fresh(opArg[i])) => opResult = opArg
           /\ opArg = prev => opResult = <<>>

\* findNewAvailabilities dropped a slot already in the baseline and
\* returned another
C6_Witness ==
    /\ lastOp = "findNewAvailabilities"
    /\ state.previousSlots # <<>>
    /\ opResult # <<>>
    /\ Len(opResult) < Len(opArg)

\* C7: filterNotifiedSlots returns a subsequence of its argument, returns
\* no slot whose key is in notifiedSlots, and returns every slot of the
\* argument whose key is not in notifiedSlots.
C7_FilterIsSubset ==
    lastOp = "filterNotifiedSlots" =>
        /\ IsSubsequence(opResult, opArg)
        /\ \A i \in DOMAIN opResult : getSlotKey(opResult[i]) \notin NotifiedKeySet
        /\ Len(opResult) =
              Cardinality({i \in DOMAIN opArg : getSlotKey(opArg[i]) \notin NotifiedKeySet})

\* filterNotifiedSlots dropped a notified slot and returned another
C7_Witness ==
    /\ lastOp = "filterNotifiedSlots"
    /\ opResult # <<>>
    /\ Len(opResult) < Len(opArg)

\* C8: after markAsNotified(slots), notifiedSlots is the last 1000 entries
\* of the old notifiedSlots followed by the keys of slots, in that order.
C8_MarkKeepsNewest ==
    lastOp = "markAsNotified" =>
        LET all == opBefore \o MapKeys(opArg)
            n == IF Len(all) < NOTIFIED_LIMIT THEN Len(all) ELSE NOTIFIED_LIMIT
        IN /\ state.notifiedSlots # None
           /\ Len(NotifiedOrEmpty(state)) = n
           /\ NotifiedOrEmpty(state) = SubSeq(all, Len(all) - n + 1, Len(all))

\* markAsNotified of two slots on 999 entries evicted the oldest one
C8_Witness ==
    /\ lastOp = "markAsNotified"
    /\ Len(opBefore) = NOTIFIED_LIMIT - 1
    /\ Len(opArg) = 2
    /\ Len(NotifiedOrEmpty(state)) = NOTIFIED_LIMIT
    /\ NotifiedOrEmpty(state)[1] = opBefore[2]

-----------------------------------------------------------------------------
(* Properties of loading and saving the state *)

\* the loaded state holds a lastCheck timestamp
HasLastCheck(st) == st # Null /\ "lastCheck" \in DOMAIN st /\ st.lastCheck # Null

\* the file holds a state record: an object with lastCheck and previousSlots
\* (notifiedSlots may be missing: the code reads it with || [])
WellFormedStateFile(file) ==
    /\ file.kind = "json"
    /\ file.value # Null
    /\ {"lastCheck", "previousSlots"} \subseteq DOMAIN file.value

\* C14: isFirstRun returns true exactly when the loaded state holds no
\* lastCheck timestamp: true for a state loaded before any updateState was
\* persisted, false after any updateState call.
C14_IsFirstRunExact ==
    lastOp = "isFirstRun" =>
        /\ ~threw
        /\ opResult <=> ~HasLastCheck(state)

\* C15: over a state file that is absent, unreadable or no well-formed state
\* record the constructor's loadState gives the default state, and no
\* StateManager operation on a loaded state throws.
C15_MalformedLoadsDefault ==
    /\ (lastOp = "constructor" /\ ~WellFormedStateFile(stateFile)) => state = DefaultState
    /\ ~threw

FrameOfReads ==
    lastOp' \in {"findNewAvailabilities", "filterNotifiedSlots"}
        => state' = state /\ stateFile' = stateFile

\* the operation just performed assigned to the state or wrote the file
Mutated == stateWrite' # None \/ (lastOp' # "constructor" /\ state' # state)

\* C19 as stated: findNewAvailabilities and filterNotifiedSlots leave the
\* state and the state file unchanged, and only markAsNotified and
\* updateState mutate and persist.
C19_OnlyMarkAndUpdateMutate ==
    [][/\ FrameOfReads
       /\ Mutated => lastOp' \in {"markAsNotified", "updateState"}]_vars

\* C19 amended: findNewAvailabilities and filterNotifiedSlots leave the state
\* and the state file unchanged; markAsNotified, updateState and
\* clearNotifiedSlots are the only operations that mutate the state, and each
\* of them then calls saveState, which leaves the mutated state in the file
\* when its write succeeds.
C19_OnlyMarkUpdateAndClearMutate ==
    [][/\ FrameOfReads
       /\ Mutated => lastOp' \in {"markAsNotified", "updateState", "clearNotifiedSlots"}
       /\ (lastOp' \in {"markAsNotified", "updateState", "clearNotifiedSlots"} /\ ~threw')
             => /\ stateWrite' # None
                /\ stateWrite' = Some("written") => stateFile' = JsonFile(state')]_vars

\* filterNotifiedSlots dropped a notified slot from its argument and both
\* the state and the file written before still hold the notified keys
C19_Witness ==
    /\ lastOp = "filterNotifiedSlots"
    /\ ~threw
    /\ Len(opResult) < Len(opArg)
    /\ NotifiedOrEmpty(state) # <<>>
    /\ stateFile = JsonFile(state)

\* C20: when the write of the state file fails, markAsNotified and
\* updateState do not throw, the state in memory holds the update, and the
\* file is left as it was.
C20_FailedWriteLeavesFile ==
    [][(/\ lastOp' \in {"markAsNotified", "updateState"}
        /\ stateWrite' \in {Some("refused"), Some("torn")})
       => /\ ~threw'
          /\ state' = IF lastOp' = "updateState"
                        THEN updatedState(state, opArg', now)
                        ELSE markedState(state, opArg')
          /\ stateFile' = stateFile]_vars

-----------------------------------------------------------------------------
(* Properties of checkReservations *)

\* the file holds a cooldown record: an object with a timestamp that is a
\* date and a boolean hadAvailability
WellFormedRecord(file) ==
    /\ file.kind = "json"
    /\ file.value # Null
    /\ file.value.timestamp.t = "date"
    /\ file.value.hadAvailability.t = "boolean"

SentAvailable == {i \in DOMAIN sent : sent[i].title = "Reservation Slots Available!"}

KeysOf(slots) == {KeyOf(slots[i]) : i \in DOMAIN slots}

\* C2: a run whose available slots were all available in the last run that
\* completed sends no availability notification.
C2_UnchangedRunIsSilent ==
    (/\ prevObserved # None
     /\ observed # None
     /\ KeysOf(observed[1]) \subseteq KeysOf(prevObserved[1]))
    => SentAvailable = {}

\* C3: the very first run (nothing persisted, no run before it) sends no
\* notification for the available slots it observes.
C3_FirstRunIsSilent ==
    (/\ checks = 1
     /\ prevObserved = None
     /\ lastNotificationFile.kind = "absent"
     /\ observed # None
     /\ observed[1] # <<>>)
    => SentAvailable = {}

\* C9: shouldSendNonAvailableNotification returns true when there is no
\* cooldown record, true when the record has hadAvailability = true, and for
\* a record with hadAvailability = false true exactly when at least 30 whole
\* minutes have passed since the record's timestamp.
C9_CooldownDecision ==
    [][(pc = "scraping" /\ cooldown' # None) =>
         LET file == lastNotificationFile
             wellFormed == WellFormedRecord(file)
         IN /\ file.kind = "absent" => cooldown'[1]
            /\ (wellFormed /\ file.value.hadAvailability.b) => cooldown'[1]
            /\ (wellFormed /\ ~file.value.hadAvailability.b) =>
                  (cooldown'[1] <=> (now - file.value.timestamp.ms) \div MsPerMinute >= 30)]_vars

\* the function allowed a notification exactly 30 minutes after a record
\* with hadAvailability = false
C9_Witness ==
    /\ pc = "notifyingNone"
    /\ cooldown = Some(TRUE)
    /\ WellFormedRecord(lastNotificationFile)
    /\ lastNotificationFile.value.hadAvailability = Bool(FALSE)
    /\ sent[1].at - lastNotificationFile.value.timestamp.ms = Minutes(30)

\* C10: a run that observed at least one available slot sends the
\* availability notification, with exactly the slots it observed, whatever
\* the cooldown record and the source.
C10_AvailabilityAlwaysNotified ==
    (observed # None /\ observed[1] # <<>>) =>
        /\ Len(sent) = 1
        /\ sent[1].title = "Reservation Slots Available!"
        /\ sent[1].slots = observed[1]

IsNoAvailability(n) == n.title = "Check Complete - No Availability" /\ n.slots = <<>>

IsFailure(n) == n.title = "Reservation Check Failed"

LastSent == sent[Len(sent)]

\* the record updateLastNotification writes at instant t for notification n
RecordOf(n, t) ==
    JsonFile(LastNotification(Date(t), Bool(n.title = "Reservation Slots Available!")))

\* C11: a run that observed no available slot consults the cooldown
\* decision (a GitHub Actions run is always allowed); allowed, it sends one
\* notification with an empty slot list; suppressed, it sends none and
\* leaves the cooldown record unchanged.
C11_NoAvailabilityFollowsCooldown ==
    [][/\ observed' = Some(<<>>) =>
             LET allowed == source' = "GitHub Actions" \/ cooldown' = Some(TRUE)
             IN /\ source' = "Local" => cooldown' # None
                /\ allowed => Len(sent') = 1 /\ IsNoAvailability(sent'[1])
                /\ ~allowed => sent' = <<>>
       /\ (observed = Some(<<>>) /\ cooldown = Some(FALSE) /\ checks' = checks)
             => lastNotificationFile' = lastNotificationFile]_vars

C13_GitHubActionsIgnoresCooldown ==
    [][/\ (source' = "GitHub Actions" /\ observed' = Some(<<>>)) =>
             /\ Len(sent') = 1
             /\ IsNoAvailability(sent'[1])
             /\ cooldown' = None
       /\ (source = "GitHub Actions" /\ checks' = checks) =>
             /\ lastNotificationFile' = lastNotificationFile
             /\ recordWrite' = None]_vars

\* C16: over a cooldown file that is missing or holds no well-formed
\* {timestamp, hadAvailability} record, shouldSendNonAvailableNotification
\* returns true.
C16_CorruptRecordAllows ==
    [][(pc = "scraping" /\ cooldown' # None /\ ~WellFormedRecord(lastNotificationFile))
          => cooldown'[1]]_vars

\* scraper.scrape rejected in the current run
ScraperFailed == observed = None /\ pc \in {"notifyingFailure", "failed", "exited"}

\* C17: when the scraper fails, the run sends one failure notification,
\* modifies neither the cooldown record nor the state file, and fails once
\* the notification has settled; single check mode then exits with code 1.
C17_ScraperFailurePropagates ==
    [][/\ ScraperFailed' =>
             /\ Len(sent') = 1
             /\ IsFailure(sent'[1])
             /\ delivered' # <<>> => pc' \in {"failed", "exited"}
             /\ pc' = "exited" => exitCode' = Some(1)
       /\ (checks' = checks /\ (pc = "scraping" \/ ScraperFailed)) =>
             /\ lastNotificationFile' = lastNotificationFile
             /\ stateFile' = stateFile]_vars

\* a process whose scrape failed, with a cooldown record on disk, has sent
\* the failure notification and exited with code 1
C17_Witness ==
    /\ ScraperFailed
    /\ pc = "exited"
    /\ exitCode = Some(1)
    /\ Len(sent) = 1
    /\ Len(delivered) = 1
    /\ lastNotificationFile.kind = "json"

\* C18: notify never rejects; when the sink failed and notify fell back to
\* the console, the run sends no failure notification and returns normally,
\* and a Local run still writes the cooldown record.
C18_SinkFailureAbsorbed ==
    /\ \A i \in DOMAIN delivered : ~delivered[i].rejected
    /\ (delivered # <<>> /\ delivered[1].fallback /\ ~IsFailure(sent[1])) =>
          /\ Len(sent) = 1
          /\ pc \in {"done", "exited"}
          /\ pc = "exited" => exitCode = Some(0)
          /\ source = "Local" =>
                /\ recordWrite # None
                /\ recordWrite = Some("written") =>
                      /\ lastNotificationFile.value.hadAvailability
                            = Bool(sent[1].title = "Reservation Slots Available!")
                      /\ lastNotificationFile.value.timestamp.ms >= sent[1].at
                      /\ lastNotificationFile.value.timestamp.ms <= now

\* the sink failed for the availability notification of a Local run, notify
\* fell back to the console, and the run returned with the record written
C18_Witness ==
    /\ pc = "done"
    /\ source = "Local"
    /\ Len(delivered) = 1
    /\ delivered[1].fallback
    /\ sent[1].title = "Reservation Slots Available!"
    /\ recordWrite = Some("written")
    /\ lastNotificationFile = RecordOf(sent[1], now)

\* C22: of two no-availability notifications sent one after the other by
\* sequential Local runs whose writes of the cooldown record succeed, with no
\* availability notification sent between them, the second is sent at least
\* 30 minutes after the first.
C22_NoAvailabilitySpacing ==
    [][(/\ source = "Local"
        /\ lastNoneAt # None
        /\ pc = "scraping"
        /\ pc' = "notifyingNone")
       => now - lastNoneAt[1] >= Minutes(30)]_vars

\* a Local run sends the no-availability notification exactly 30 minutes
\* after the one before it, which was recorded
C22_Witness ==
    /\ pc = "notifyingNone"
    /\ source = "Local"
    /\ lastNoneAt # None
    /\ sent[1].at - lastNoneAt[1] = Minutes(30)

\* the call has settled
Ended == pc \in {"done", "failed", "exited"}

\* the call returned its result
Succeeded == pc = "done" \/ (pc = "exited" /\ exitCode = Some(0))

\* C23: a run calls notifier.notify at most once and ends in one of four
\* ways: returned after the one availability notification, returned after
\* the one no-availability notification, returned without notification when
\* the cooldown suppressed it, or threw after the one failure notification.
C23_OneOutcomePerRun ==
    /\ Len(sent) <= 1
    /\ Succeeded =>
          \/ Len(sent) = 1 /\ sent[1].title = "Reservation Slots Available!"
          \/ Len(sent) = 1 /\ IsNoAvailability(sent[1])
          \/ sent = <<>> /\ cooldown = Some(FALSE)
    /\ (Ended /\ ~Succeeded) => Len(sent) = 1 /\ IsFailure(sent[1])

\* the second Local run returned without notification, suppressed by the
\* record of the first run's no-availability notification
C23_Witness ==
    /\ pc = "done"
    /\ sent = <<>>
    /\ cooldown = Some(FALSE)
    /\ lastNoneAt # None

-----------------------------------------------------------------------------
(* Properties of startPolling *)

RunsInProgress == (IF InProgress(pc) THEN 1 ELSE 0) + Len(parked)

\* C21: in polling mode at most one checkReservations call is in progress at
\* any time.
C21_NoOverlap == poll # "off" => RunsInProgress <= 1

\* C24: in polling mode, after a check has failed (the first one included)
\* the polling goes on: startPolling is still about to register the timer
\* or the timer is registered.
C24_FailedCheckKeepsPolling ==
    (poll # "off" /\ pc = "failed") => poll \in {"first", "armed"}

====
